---- MODULE Spec2Model ----
(***************************************************************************)
(* JsonFormatter component (src/src/components/JsonFormatter.tsx): the     *)
(* parse / format pipeline (parseJson, formatJson) and the handlers that   *)
(* drive it.  Text is a sequence of one-character strings; JSON.parse and  *)
(* JSON.stringify are modelled as the ECMAScript algorithms the component  *)
(* calls, over that representation.                                        *)
(***************************************************************************)
EXTENDS Integers, Sequences, FiniteSets, TLC

VARIABLES input, output, error, options, copied, copyPending, copiedTimers,
          pc, parsed, lastEvent, cache, cachedOutput, cachedError

vars == <<input, output, error, options, copied, copyPending, copiedTimers,
          pc, parsed, lastEvent, cache, cachedOutput, cachedError>>

(***************************************************************************)
(* Characters.  NBSP stands for U+00A0: white space for String.trim, not   *)
(* for the JSON grammar.                                                   *)
(***************************************************************************)
NBSP == "NBSP"

JSONWhiteSpace == {" ", "\t", "\n", "\r"}

TrimWhiteSpace == JSONWhiteSpace \cup {NBSP}

DigitChars == <<"0", "1", "2", "3", "4", "5", "6", "7", "8", "9">>

IsDigit(c) == \E d \in 1..10 : DigitChars[d] = c

DigitVal(c) == (CHOOSE d \in 1..10 : DigitChars[d] = c) - 1

\* String.prototype.trim: strip white space and line terminators at both ends.
RECURSIVE TrimStart(_)
TrimStart(s) ==
  IF s # <<>> /\ Head(s) \in TrimWhiteSpace THEN TrimStart(Tail(s)) ELSE s

RECURSIVE TrimEnd(_)
TrimEnd(s) ==
  IF s # <<>> /\ s[Len(s)] \in TrimWhiteSpace
  THEN TrimEnd(SubSeq(s, 1, Len(s) - 1)) ELSE s

Trim(s) == TrimEnd(TrimStart(s))

startsWith(s, c) == s # <<>> /\ s[1] = c

endsWith(s, c) == s # <<>> /\ s[Len(s)] = c

(***************************************************************************)
(* JavaScript values reachable from JSON.parse.  Every value is a record   *)
(* of the same shape.  A finite number is sign * mant * 10^exp with mant   *)
(* not divisible by 10 (zero: mant = 0, exp = 0); inf = 1 marks +Infinity  *)
(* and inf = -1 marks -Infinity.  Negative zero is not told apart from     *)
(* zero: JSON.stringify prints both as 0 and === holds them equal.  An     *)
(* object is the list of its own properties in enumeration order: keys     *)
(* and kids run in parallel.                                               *)
(***************************************************************************)
JNull == [t |-> "null", neg |-> FALSE, mant |-> 0, exp |-> 0, inf |-> 0,
          s |-> <<>>, keys |-> <<>>, kids |-> <<>>]

JBool(b) == [JNull EXCEPT !.t = IF b THEN "true" ELSE "false"]

JString(str) == [JNull EXCEPT !.t = "string", !.s = str]

JArray(elems) == [JNull EXCEPT !.t = "array", !.kids = elems]

JObject(ks, vs) == [JNull EXCEPT !.t = "object", !.keys = ks, !.kids = vs]

JInfinity(negative) ==
  [JNull EXCEPT !.t = "number", !.inf = IF negative THEN -1 ELSE 1]

RECURSIVE Pow10(_)
Pow10(n) == IF n = 0 THEN 1 ELSE 10 * Pow10(n - 1)

RECURSIVE NumDigits(_)
NumDigits(n) == IF n < 10 THEN 1 ELSE 1 + NumDigits(n \div 10)

\* The Number value of the decimal m * 10^e (m >= 0): the nearest double.
\* m has at most 9 digits, so the decimal is its own shortest round-trip
\* form whenever it is a normal double.  From 1.797693134862315807e308 up
\* the result is Infinity; below the subnormal range it is 0.  (Subnormal
\* magnitudes, 1e-323 to 2e-308, round inexactly and are in no input here.)
RECURSIVE StripZeros(_, _)
StripZeros(m, e) ==
  IF m # 0 /\ m % 10 = 0 THEN StripZeros(m \div 10, e + 1) ELSE <<m, e>>

Lead4(m) ==
  IF NumDigits(m) >= 4 THEN m \div Pow10(NumDigits(m) - 4)
  ELSE m * Pow10(4 - NumDigits(m))

JNumber(negative, m, e) ==
  LET n  == StripZeros(m, e)
      mg == NumDigits(n[1]) + n[2]     \* the value is in [10^(mg-1), 10^mg)
  IN  IF n[1] = 0 THEN [JNull EXCEPT !.t = "number"]
      ELSE IF mg > 309 \/ (mg = 309 /\ Lead4(n[1]) >= 1798)
        THEN JInfinity(negative)
      ELSE IF mg < -323
        THEN [JNull EXCEPT !.t = "number"]
      ELSE [JNull EXCEPT !.t = "number", !.neg = negative,
                         !.mant = n[1], !.exp = n[2]]

(***************************************************************************)
(* JSON.parse (called at lines 70 and 81): a strict recursive-descent      *)
(* parse of the ECMA-404 grammar.  A result is                             *)
(*   [ok, val, pos, reason]: on success val and the position after the     *)
(* value; on failure the SyntaxError's reason and the position it names.   *)
(* \u escapes are not modelled (no input here holds one).                  *)
(***************************************************************************)
UnexpectedToken == "Unexpected token"

UnexpectedEnd == "Unexpected end of JSON input"

BadControl == "Bad control character in string literal"

BadEscape == "Bad escaped character"

Ok(v, p) == [ok |-> TRUE, val |-> v, pos |-> p, reason |-> ""]

Fail(why, p) == [ok |-> FALSE, val |-> JNull, pos |-> p, reason |-> why]

\* A failure at position p of src: past the end it is "unexpected end".
FailAt(src, p) ==
  IF p > Len(src) THEN Fail(UnexpectedEnd, p) ELSE Fail(UnexpectedToken, p)

RECURSIVE SkipWS(_, _)
SkipWS(src, i) ==
  IF i <= Len(src) /\ src[i] \in JSONWhiteSpace THEN SkipWS(src, i + 1) ELSE i

RECURSIVE DigitsEnd(_, _)
DigitsEnd(src, i) ==
  IF i <= Len(src) /\ IsDigit(src[i]) THEN DigitsEnd(src, i + 1) ELSE i

RECURSIVE DigitsValue(_)
DigitsValue(ds) ==
  IF ds = <<>> THEN 0
  ELSE 10 * DigitsValue(SubSeq(ds, 1, Len(ds) - 1)) + DigitVal(ds[Len(ds)])

HasDigitAt(src, i) == i <= Len(src) /\ IsDigit(src[i])

\* number: -? (0 | [1-9][0-9]*) (. [0-9]+)? ([eE] [+-]? [0-9]+)?
ParseNumber(src, i) ==
  LET negative == src[i] = "-"
      a == IF negative THEN i + 1 ELSE i
      b == IF HasDigitAt(src, a) /\ src[a] = "0" THEN a + 1
           ELSE DigitsEnd(src, a)
      hasFrac == b <= Len(src) /\ src[b] = "."
      c == IF hasFrac THEN DigitsEnd(src, b + 1) ELSE b
      hasExp == c <= Len(src) /\ src[c] \in {"e", "E"}
      signed == hasExp /\ c + 1 <= Len(src) /\ src[c + 1] \in {"+", "-"}
      d == IF signed THEN c + 2 ELSE c + 1
      z == IF hasExp THEN DigitsEnd(src, d) ELSE c
      fracDigits == IF hasFrac THEN SubSeq(src, b + 1, c - 1) ELSE <<>>
      e10 == IF hasExp THEN DigitsValue(SubSeq(src, d, z - 1)) ELSE 0
      e == (IF signed /\ src[c + 1] = "-" THEN 0 - e10 ELSE e10)
             - Len(fracDigits)
  IN  IF ~HasDigitAt(src, a) THEN FailAt(src, a)
      ELSE IF hasFrac /\ ~HasDigitAt(src, b + 1) THEN FailAt(src, b + 1)
      ELSE IF hasExp /\ ~HasDigitAt(src, d) THEN FailAt(src, d)
      ELSE Ok(JNumber(negative,
                      DigitsValue(SubSeq(src, a, b - 1) \o fracDigits), e), z)

\* The character an escape \c stands for; "" when c starts no escape.
Unescape(c) ==
  CASE c = "\"" -> "\""
    [] c = "\\" -> "\\"
    [] c = "/"  -> "/"
    [] c = "n"  -> "\n"
    [] c = "t"  -> "\t"
    [] c = "r"  -> "\r"
    [] c = "b"  -> "BS"
    [] c = "f"  -> "FF"
    [] OTHER    -> ""

ControlChars == {"\n", "\t", "\r", "BS", "FF"}

\* The string literal whose opening quote is before position j.
RECURSIVE ScanString(_, _, _)
ScanString(src, j, acc) ==
  IF j > Len(src) THEN Fail(UnexpectedEnd, j)
  ELSE IF src[j] = "\"" THEN Ok(JString(acc), j + 1)
  ELSE IF src[j] = "\\" THEN
    IF j + 1 > Len(src) THEN Fail(UnexpectedEnd, j + 1)
    ELSE IF Unescape(src[j + 1]) = "" THEN Fail(BadEscape, j + 1)
    ELSE ScanString(src, j + 2, Append(acc, Unescape(src[j + 1])))
  ELSE IF src[j] \in ControlChars THEN Fail(BadControl, j)
  ELSE ScanString(src, j + 1, Append(acc, src[j]))

ParseLiteral(src, i, word, v) ==
  IF i + Len(word) - 1 <= Len(src) /\ SubSeq(src, i, i + Len(word) - 1) = word
  THEN Ok(v, i + Len(word))
  ELSE LET bad == CHOOSE k \in 1..Len(word) :
                    /\ (i + k - 1 > Len(src) \/ src[i + k - 1] # word[k])
                    /\ \A h \in 1..(k - 1) : src[i + h - 1] = word[h]
       IN  FailAt(src, i + bad - 1)

(***************************************************************************)
(* Own-property order of an object built by JSON.parse (CreateDataProperty *)
(* per member, then OrdinaryOwnPropertyKeys on enumeration): array-index   *)
(* keys first, ascending, then the other keys in creation order.  A key    *)
(* met again keeps its place and takes the new value.                      *)
(***************************************************************************)
IsArrayIndex(key) ==
  /\ key # <<>>
  /\ Len(key) <= 9
  /\ \A k \in 1..Len(key) : IsDigit(key[k])
  /\ (Len(key) = 1 \/ key[1] # "0")

InsertAt(seq, k, x) == SubSeq(seq, 1, k - 1) \o <<x>> \o SubSeq(seq, k, Len(seq))

\* Where a new key goes in keys.
KeySlot(keys, key) ==
  IF IsArrayIndex(key)
  THEN 1 + Cardinality({k \in 1..Len(keys) :
                          IsArrayIndex(keys[k])
                          /\ DigitsValue(keys[k]) < DigitsValue(key)})
  ELSE Len(keys) + 1

CreateDataProperty(obj, key, v) ==
  IF \E k \in 1..Len(obj.keys) : obj.keys[k] = key
  THEN LET k == CHOOSE k \in 1..Len(obj.keys) : obj.keys[k] = key
       IN  [obj EXCEPT !.kids[k] = v]
  ELSE LET k == KeySlot(obj.keys, key)
       IN  [obj EXCEPT !.keys = InsertAt(obj.keys, k, key),
                       !.kids = InsertAt(obj.kids, k, v)]

RECURSIVE ParseValue(_, _)
RECURSIVE ParseElements(_, _, _)
RECURSIVE ParseMembers(_, _, _)

\* The value that starts at position i (white space already skipped).
ParseValue(src, i) ==
  IF i > Len(src) THEN Fail(UnexpectedEnd, i)
  ELSE IF src[i] = "{" THEN
    LET j == SkipWS(src, i + 1)
    IN  IF j <= Len(src) /\ src[j] = "}" THEN Ok(JObject(<<>>, <<>>), j + 1)
        ELSE ParseMembers(src, j, JObject(<<>>, <<>>))
  ELSE IF src[i] = "[" THEN
    LET j == SkipWS(src, i + 1)
    IN  IF j <= Len(src) /\ src[j] = "]" THEN Ok(JArray(<<>>), j + 1)
        ELSE ParseElements(src, j, <<>>)
  ELSE IF src[i] = "\"" THEN ScanString(src, i + 1, <<>>)
  ELSE IF src[i] = "-" \/ IsDigit(src[i]) THEN ParseNumber(src, i)
  ELSE IF src[i] = "t" THEN ParseLiteral(src, i, <<"t", "r", "u", "e">>, JBool(TRUE))
  ELSE IF src[i] = "f"
    THEN ParseLiteral(src, i, <<"f", "a", "l", "s", "e">>, JBool(FALSE))
  ELSE IF src[i] = "n" THEN ParseLiteral(src, i, <<"n", "u", "l", "l">>, JNull)
  ELSE Fail(UnexpectedToken, i)

\* The elements of an array from position i on, acc being those before.
ParseElements(src, i, acc) ==
  LET v == ParseValue(src, i)
      k == SkipWS(src, v.pos)
  IN  IF ~v.ok THEN v
      ELSE IF k > Len(src) THEN Fail(UnexpectedEnd, k)
      ELSE IF src[k] = "," THEN
        ParseElements(src, SkipWS(src, k + 1), Append(acc, v.val))
      ELSE IF src[k] = "]" THEN Ok(JArray(Append(acc, v.val)), k + 1)
      ELSE Fail(UnexpectedToken, k)

\* The members of an object from position i on, obj holding those before.
ParseMembers(src, i, obj) ==
  IF i > Len(src) THEN Fail(UnexpectedEnd, i)
  ELSE IF src[i] # "\"" THEN Fail(UnexpectedToken, i)
  ELSE
    LET key == ScanString(src, i + 1, <<>>)
        c   == SkipWS(src, key.pos)
        v   == ParseValue(src, SkipWS(src, c + 1))
        k   == SkipWS(src, v.pos)
    IN  IF ~key.ok THEN key
        ELSE IF c > Len(src) \/ src[c] # ":" THEN FailAt(src, c)
        ELSE IF ~v.ok THEN v
        ELSE IF k > Len(src) THEN Fail(UnexpectedEnd, k)
        ELSE IF src[k] = "," THEN
          ParseMembers(src, SkipWS(src, k + 1),
                       CreateDataProperty(obj, key.val.s, v.val))
        ELSE IF src[k] = "}" THEN
          Ok(CreateDataProperty(obj, key.val.s, v.val), k + 1)
        ELSE Fail(UnexpectedToken, k)

\* After the value v of text only white space may follow, up to position k.
EndOfText(text, v, k) ==
  IF ~v.ok THEN v
  ELSE IF k <= Len(text) THEN Fail(UnexpectedToken, k)
  ELSE v

ValueAndRest(text, v) == EndOfText(text, v, SkipWS(text, v.pos))

\* JSON.parse(text): one value, white space around it, nothing else.
JSONparse(text) == ValueAndRest(text, ParseValue(text, SkipWS(text, 1)))

(***************************************************************************)
(* JSON.stringify(value, null, space) (called at lines 105 and 107):       *)
(* QuoteJSONString, Number::toString, SerializeJSONArray and               *)
(* SerializeJSONObject.                                                    *)
(***************************************************************************)
QuoteChar(c) ==
  CASE c = "\"" -> <<"\\", "\"">>
    [] c = "\\" -> <<"\\", "\\">>
    [] c = "\n" -> <<"\\", "n">>
    [] c = "\t" -> <<"\\", "t">>
    [] c = "\r" -> <<"\\", "r">>
    [] c = "BS" -> <<"\\", "b">>
    [] c = "FF" -> <<"\\", "f">>
    [] OTHER    -> <<c>>

RECURSIVE QuoteBody(_)
QuoteBody(str) ==
  IF str = <<>> THEN <<>> ELSE QuoteChar(Head(str)) \o QuoteBody(Tail(str))

QuoteJSONString(str) == <<"\"">> \o QuoteBody(str) \o <<"\"">>

RECURSIVE IntToDigits(_)
IntToDigits(n) ==
  IF n < 10 THEN <<DigitChars[n + 1]>>
  ELSE Append(IntToDigits(n \div 10), DigitChars[(n % 10) + 1])

Repeat(c, n) == [k \in 1..n |-> c]

\* Number::toString(x, 10) of a finite number: k digits, decimal point after
\* the n-th.
NumberToString(v) ==
  LET ds   == IntToDigits(v.mant)
      k    == Len(ds)
      n    == k + v.exp
      sign == IF v.neg THEN <<"-">> ELSE <<>>
      e    == n - 1
      es   == (IF e < 0 THEN <<"-">> ELSE <<"+">>)
                \o IntToDigits(IF e < 0 THEN 0 - e ELSE e)
  IN  sign \o
      (IF v.mant = 0 THEN <<"0">>
       ELSE IF k <= n /\ n <= 21 THEN ds \o Repeat("0", n - k)
       ELSE IF 0 < n /\ n <= 21
         THEN SubSeq(ds, 1, n) \o <<".">> \o SubSeq(ds, n + 1, k)
       ELSE IF -6 < n /\ n <= 0 THEN <<"0", ".">> \o Repeat("0", 0 - n) \o ds
       ELSE IF k = 1 THEN ds \o <<"e">> \o es
       ELSE <<ds[1], ".">> \o SubSeq(ds, 2, k) \o <<"e">> \o es)

\* parts[1] sep parts[2] sep ...
RECURSIVE Join(_, _)
Join(parts, sep) ==
  IF parts = <<>> THEN <<>>
  ELSE IF Len(parts) = 1 THEN parts[1]
  ELSE parts[1] \o sep \o Join(Tail(parts), sep)

Chars(word) ==
  CASE word = "null"  -> <<"n", "u", "l", "l">>
    [] word = "true"  -> <<"t", "r", "u", "e">>
    [] word = "false" -> <<"f", "a", "l", "s", "e">>

\* SerializeJSONProperty: indent is the current indentation, gap one level's.
RECURSIVE SerializeJSONProperty(_, _, _)
SerializeJSONProperty(v, indent, gap) ==
  LET stepback == indent
      inner    == indent \o gap
      sep      == IF gap = <<>> THEN <<",">> ELSE <<",", "\n">> \o inner
      wrap(open, parts, close) ==
        IF parts = <<>> THEN <<open, close>>
        ELSE IF gap = <<>> THEN <<open>> \o Join(parts, sep) \o <<close>>
        ELSE <<open, "\n">> \o inner \o Join(parts, sep)
               \o <<"\n">> \o stepback \o <<close>>
  IN  CASE v.t \in {"null", "true", "false"} -> Chars(v.t)
        [] v.t = "string" -> QuoteJSONString(v.s)
        [] v.t = "number" ->
             IF v.inf # 0 THEN Chars("null") ELSE NumberToString(v)
        [] v.t = "array" ->
             wrap("[", [k \in 1..Len(v.kids) |->
                          SerializeJSONProperty(v.kids[k], inner, gap)], "]")
        [] v.t = "object" ->
             wrap("{", [k \in 1..Len(v.kids) |->
                          QuoteJSONString(v.keys[k]) \o <<":">>
                            \o (IF gap = <<>> THEN <<>> ELSE <<" ">>)
                            \o SerializeJSONProperty(v.kids[k], inner, gap)],
                  "}")

\* The gap for a numeric space argument: min(10, space) spaces, none below 1.
Gap(space) ==
  IF space < 1 THEN <<>> ELSE Repeat(" ", IF space > 10 THEN 10 ELSE space)

\* JSON.stringify(value, null, space); space 0 is the call without it.
JSONstringify(v, space) == SerializeJSONProperty(v, <<>>, Gap(space))

(***************************************************************************)
(* parseJson (lines 61-96).  A call either returns a value or throws; the  *)
(* SyntaxError of the first JSON.parse is rethrown as an Error whose       *)
(* message is "Invalid JSON: " and the parser's own message (line 92).     *)
(* A message is kept as [prefix, reason, at]: the parser's message names   *)
(* a reason and a position.                                                *)
(***************************************************************************)
InvalidJsonPrefix == "Invalid JSON: "

Message(prefix, reason, at) ==
  [isNull |-> FALSE, prefix |-> prefix, reason |-> reason, at |-> at]

\* error === null
NoError == [isNull |-> TRUE, prefix |-> "", reason |-> "", at |-> 0]

\* What parseJson hands to formatJson: the value it returns, or the error it
\* throws, an object with a name (its class) and a message.  Line 92 throws
\* new Error(...): the name of what formatJson catches is "Error".
Return(v) == [threw |-> FALSE, value |-> v, name |-> "", message |-> NoError]

Throw(msg) ==
  [threw |-> TRUE, value |-> JNull, name |-> "Error", message |-> msg]

\* Fault: a string that holds a quoted string is taken for JSON too.
LooksLikeJsonQuoted(trimmedString) ==
  \/ startsWith(trimmedString, "{") /\ endsWith(trimmedString, "}")
  \/ startsWith(trimmedString, "[") /\ endsWith(trimmedString, "]")
  \/ startsWith(trimmedString, "\"") /\ endsWith(trimmedString, "\"")

\* Lines 77-78: the string starts with { and ends with }, or [ and ].
LooksLikeJson(trimmedString) ==
  \/ startsWith(trimmedString, "{") /\ endsWith(trimmedString, "}")
  \/ startsWith(trimmedString, "[") /\ endsWith(trimmedString, "]")

\* Faults of the double-encoding recovery, for the checks below: the inner
\* value is dropped; the inner SyntaxError is thrown; the strings inside the
\* inner value are decoded too.
innerParseKeep(parsedString, second) == Return(parsedString)

innerParseThrow(parsedString, second) ==
  IF second.ok THEN Return(second.val)
  ELSE Throw(Message(InvalidJsonPrefix, second.reason, second.pos))

DecodeNested(v) ==
  [v EXCEPT !.kids =
     [k \in 1..Len(v.kids) |->
        IF v.kids[k].t = "string" /\ LooksLikeJson(Trim(v.kids[k].s))
           /\ JSONparse(Trim(v.kids[k].s)).ok
        THEN JSONparse(Trim(v.kids[k].s)).val
        ELSE v.kids[k]]]

innerParseDeep(parsedString, second) ==
  IF second.ok THEN Return(DecodeNested(second.val)) ELSE Return(parsedString)

\* Lines 79-85: the inner parse replaces the string, or its failure is
\* swallowed and the string is kept.
innerParse(parsedString, second) ==
  IF second.ok THEN Return(second.val) ELSE Return(parsedString)

\* Fault: the second parse is tried on every string.
doubleEncodedAlways(parsedString, trimmedString) ==
  IF JSONparse(trimmedString).ok THEN Return(JSONparse(trimmedString).val)
  ELSE Return(parsedString)

\* Lines 74-87, parsed being a string and trimmedString its trimmed content.
doubleEncoded(parsedString, trimmedString) ==
  IF LooksLikeJson(trimmedString)
  THEN innerParse(parsedString, JSONparse(trimmedString))
  ELSE Return(parsedString)

\* Fault: the catch of lines 90-95 rethrows the parser's SyntaxError itself.
afterParseRethrow(first) ==
  IF ~first.ok
    THEN [threw |-> TRUE, value |-> JNull, name |-> "SyntaxError",
          message |-> Message("", first.reason, first.pos)]
  ELSE IF first.val.t = "string"
    THEN doubleEncoded(first.val, Trim(first.val.s))
  ELSE Return(first.val)

\* Lines 70-95, first being the outcome of JSON.parse(cleaned).
afterParse(first) ==
  IF ~first.ok THEN Throw(Message(InvalidJsonPrefix, first.reason, first.pos))
  ELSE IF first.val.t = "string"
    THEN doubleEncoded(first.val, Trim(first.val.s))
  ELSE Return(first.val)

\* Lines 65-70.
parseCleaned(cleaned) ==
  IF cleaned = <<>> THEN Return(JNull) ELSE afterParse(JSONparse(cleaned))

parseJson(text) == parseCleaned(Trim(text))

(***************************************************************************)
(* formatJson (lines 98-114): the output and error it leaves.              *)
(***************************************************************************)
Serialize(v, opts) ==
  IF opts.minify THEN JSONstringify(v, 0) ELSE JSONstringify(v, opts.indent)

\* Lines 104-113, r being the outcome of parseJson(text).
formatParsed(r, opts) ==
  IF r.threw THEN [output |-> <<>>, error |-> r.message]
  ELSE [output |-> Serialize(r.value, opts), error |-> NoError]

formatJson(text, opts) == formatParsed(parseJson(text), opts)

CopyFailed == Message("", "Failed to copy to clipboard", 0)

IndentChoices == {2, 4, 8}

AllOptions == [indent : IndentChoices, minify : BOOLEAN]

DefaultOptions == [indent |-> 2, minify |-> FALSE]

(***************************************************************************)
(* The raw texts the pipeline is run on: every text over Alphabet up to    *)
(* MaxLen characters, and documents built from the JSON grammar (scalars,  *)
(* arrays, objects, one level of nesting), wrapped in up to MaxLayers      *)
(* string encodings, padded with white space, cut short or followed by     *)
(* garbage.                                                                *)
(***************************************************************************)
MaxLen == 3

MaxLayers == 2

Alphabet == {"[", "]", "{", "}", "\"", ",", "1", " "}

ShortTexts == UNION {[1..k -> Alphabet] : k \in 0..MaxLen}

BlankTexts == {<<>>, <<" ">>, <<"\n">>, <<NBSP>>, <<" ", "\t", "\n", "\r">>,
               <<NBSP, " ">>}

NumberTexts ==
  {<<"0">>, <<"1">>, <<"2">>, <<"-", "1">>, <<"-", "0">>, <<"1", "2">>,
   <<"1", "e", "2">>, <<"1", ".", "5">>, <<"2", "E", "-", "3">>,
   <<"1", "e", "2", "1">>, <<"1", "e", "9", "9", "9">>,
   <<"-", "1", "e", "9", "9", "9">>}

PlainStrings ==
  {<<>>, <<"a">>, <<"h", "e", "l", "l", "o">>, <<" ", "a", " ">>, <<"[">>,
   <<"a", "\"", "b">>, <<"\\">>, <<"a", "\n", "b">>, <<"{", "a">>, <<"1">>,
   <<"n", "u", "l", "l">>}

ScalarTexts ==
  NumberTexts \cup {Chars("null"), Chars("true"), Chars("false")}
    \cup {QuoteJSONString(s) : s \in PlainStrings}

ElementTexts ==
  {<<"1">>, <<"2">>, Chars("null"), QuoteJSONString(<<"a">>),
   <<"1", "e", "9", "9", "9">>, QuoteJSONString(<<"[", "1", "]">>)}

Separators == {<<",">>, <<",", " ">>}

ArrayTexts ==
  {<<"[", "]">>}
    \cup {<<"[">> \o x \o <<"]">> : x \in ElementTexts}
    \cup {<<"[">> \o x \o sep \o y \o <<"]">> :
            x \in ElementTexts, y \in ElementTexts, sep \in Separators}

KeyNames == {<<"a">>, <<"b">>, <<"1">>, <<"2">>, <<"1", "0">>}

MemberValues == {<<"1">>, <<"2">>, QuoteJSONString(<<"a">>)}

Member(key, v) == QuoteJSONString(key) \o <<":">> \o v

ObjectTexts ==
  {<<"{", "}">>}
    \cup {<<"{">> \o Member(k, v) \o <<"}">> : k \in KeyNames, v \in MemberValues}
    \cup {<<"{">> \o Member(k, v) \o <<",">> \o Member(h, w) \o <<"}">> :
            k \in KeyNames, v \in MemberValues,
            h \in KeyNames, w \in MemberValues}

InnerTexts ==
  {<<"[", "]">>, <<"{", "}">>, <<"[", "1", "]">>, <<"[", "1", ",", "2", "]">>,
   <<"{">> \o Member(<<"a">>, <<"1">>) \o <<"}">>,
   <<"{">> \o Member(<<"b">>, <<"2">>) \o <<",">> \o Member(<<"1">>, <<"1">>)
     \o <<"}">>,
   <<"[">> \o QuoteJSONString(<<"[", "1", "]">>) \o <<"]">>,
   <<"[", "1", "e", "9", "9", "9", "]">>}

NestedTexts ==
  {<<"[">> \o x \o <<"]">> : x \in InnerTexts}
    \cup {<<"[", "1", ",">> \o x \o <<",">> \o y \o <<"]">> :
            x \in InnerTexts, y \in InnerTexts}
    \cup {<<"{">> \o Member(k, x) \o <<"}">> : k \in KeyNames, x \in InnerTexts}
    \cup {<<"{">> \o Member(<<"b">>, x) \o <<",", " ">> \o Member(<<"2">>, y)
            \o <<"}">> : x \in InnerTexts, y \in InnerTexts}

Documents == ScalarTexts \cup ArrayTexts \cup ObjectTexts \cup NestedTexts

\* Bracket-delimited texts that are not JSON.
BrokenTexts ==
  {<<"[", "1", ",", "]">>, <<"{", "a", "}">>, <<"[", "]", "]">>,
   <<"{", "}", "}">>, <<"{", "\"", "a", "\"", ":", "}">>, <<"[", "a", "]">>,
   <<"{", "1", "}">>, <<"[", "[", "]">>}

LayerSeeds ==
  InnerTexts \cup BrokenTexts
    \cup {<<"1">>, <<"h", "e", "l", "l", "o">>, <<"[", "1">>, <<"1", "]">>,
          <<"{">>, <<"]">>, <<"{", "]">>, <<"[", "}">>}

InnerPaddings == {<<<<>>, <<>>>>, <<<<" ">>, <<" ", "\n">>>>, <<<<NBSP>>, <<>>>>}

\* The JSON string literals whose content is a text of T, padded.
Layer(T) ==
  {QuoteJSONString(pad[1] \o x \o pad[2]) : x \in T, pad \in InnerPaddings}

RECURSIVE Encoded(_)
Encoded(k) == IF k = 0 THEN LayerSeeds ELSE Layer(Encoded(k - 1))

EncodedTexts == UNION {Encoded(k) : k \in 1..MaxLayers}

OuterPaddings ==
  {<<<<" ">>, <<>>>>, <<<<"\n", " ">>, <<"\t">>>>, <<<<NBSP>>, <<NBSP>>>>,
   <<<<>>, <<"\r", "\n">>>>}

PaddedTexts ==
  {pad[1] \o x \o pad[2] :
     x \in ScalarTexts \cup InnerTexts \cup Encoded(1), pad \in OuterPaddings}

\* Documents cut short, and documents followed by one more character.
DamagedTexts ==
  UNION {{SubSeq(x, 1, k) : k \in 1..(Len(x) - 1)}
           \cup {x \o <<c>> : c \in {",", "}", "]", "1", "a"}} :
         x \in ScalarTexts \cup InnerTexts \cup Encoded(1)}

RawInputs ==
  ShortTexts \cup BlankTexts \cup Documents \cup BrokenTexts
    \cup EncodedTexts \cup PaddedTexts \cup DamagedTexts

(***************************************************************************)
(* The texts typed into the component: the blank ones, every text over     *)
(* Alphabet up to MaxEditLen characters, and one text per case of the      *)
(* pipeline.                                                               *)
(***************************************************************************)
MaxEditLen == 1

MaxPendingCopies == 2

EditPicks ==
  {<<"1">>, <<" ", "1", "\n">>, <<NBSP, "1">>, <<"1", "e", "9", "9", "9">>,
   <<"[", "1", "e", "9", "9", "9", "]">>,
   QuoteJSONString(<<"h", "e", "l", "l", "o">>),
   <<"{">> \o Member(<<"b">>, <<"2">>) \o <<",">> \o Member(<<"a">>, <<"1">>)
     \o <<"}">>,
   <<"{">> \o Member(<<"b">>, <<"1">>) \o <<",">> \o Member(<<"1">>, <<"2">>)
     \o <<"}">>,
   <<"{">> \o Member(<<"a">>, <<>>) \o <<"}">>,
   <<"[", "1", ",", "[", "2", "]", "]">>,
   <<"[", "]">>,
   QuoteJSONString(<<"{">> \o Member(<<"a">>, <<"1">>) \o <<"}">>),
   QuoteJSONString(<<" ", "[", "1", "]", " ">>),
   QuoteJSONString(<<"[", "1", ",", "]">>),
   QuoteJSONString(QuoteJSONString(<<"[", "1", "]">>)),
   <<"[">> \o QuoteJSONString(<<"[", "1", "]">>) \o <<"]">>,
   <<"[", "1", ",">>, <<"{", "}">>, <<"{">>, <<"}">>, <<",">>}

EditAlphabet == {"[", "]", "\"", "1", " "}

EditInputs ==
  BlankTexts \cup EditPicks
    \cup UNION {[1..k -> EditAlphabet] : k \in 0..MaxEditLen}

\* formatJson over the texts the component is given, computed once.
formatJsonMemo == [s \in EditInputs, o \in AllOptions |-> formatJson(s, o)]

(***************************************************************************)
(* The component: state after the first render, and one action per         *)
(* handler.  pc and parsed belong to the single invocation followed step   *)
(* by step below; the handlers leave them alone.                           *)
(***************************************************************************)
\* setOutput and setError with what formatJson computed.
setResult(r) ==
  /\ output' = r.output
  /\ error' = r.error

(***************************************************************************)
(* The caching variant of spec 4.3 and 9, run beside the component on the  *)
(* same events: it keeps the value parseJson gave, keyed by the raw text,  *)
(* in cache (empty, or one entry), parses only when the key is not the     *)
(* text it is asked to format, and calls the formatter on the cached       *)
(* value.  cachedOutput and cachedError are what it displays.  The         *)
(* component's handlers neither read nor write these three.                *)
(***************************************************************************)
parseJsonMemo == [s \in EditInputs |-> parseJson(s)]

cacheLookup(text) ==
  IF cache # <<>> /\ cache[1].key = text
  THEN cache[1].value
  ELSE parseJsonMemo[text]

cachedShow(text, value, r) ==
  /\ cache' = <<[key |-> text, value |-> value]>>
  /\ cachedOutput' = r.output
  /\ cachedError' = r.error

cachedResult(text, value, opts) ==
  cachedShow(text, value, formatParsed(value, opts))

cachedFormat(text, opts) == cachedResult(text, cacheLookup(text), opts)

\* The raw input became blank: the entry is dropped.
cachedBlank ==
  /\ cache' = <<>>
  /\ cachedOutput' = <<>>
  /\ cachedError' = NoError

cached == <<cache, cachedOutput, cachedError>>

Init ==
  /\ input = <<>>
  /\ output = <<>>
  /\ error = NoError
  /\ options = DefaultOptions
  /\ copied = FALSE
  /\ copyPending = 0
  /\ copiedTimers = 0
  /\ pc = "NotStarted"
  /\ parsed = JNull
  /\ lastEvent = "render"
  /\ cache = <<>>
  /\ cachedOutput = <<>>
  /\ cachedError = NoError

\* Fault: the blank check of line 121 is missing.
handleInputChangeUnguarded(newInput) ==
  /\ input' = newInput
  /\ output' = formatJson(newInput, options).output
  /\ error' = formatJson(newInput, options).error
  /\ lastEvent' = "handleInputChange"
  /\ UNCHANGED <<options, copied, copyPending, copiedTimers, pc, parsed>>
  /\ UNCHANGED cached

\* Lines 116-127.
handleInputChange(newInput) ==
  /\ input' = newInput
  /\ IF Trim(newInput) # <<>>
     THEN /\ setResult(formatJsonMemo[newInput, options])
          /\ cachedFormat(newInput, options)
     ELSE /\ output' = <<>>
          /\ error' = NoError
          /\ cachedBlank
  /\ lastEvent' = "handleInputChange"
  /\ UNCHANGED <<options, copied, copyPending, copiedTimers, pc, parsed>>

\* Lines 129-133.
handleFormat ==
  /\ IF Trim(input) # <<>>
     THEN /\ setResult(formatJsonMemo[input, options])
          /\ cachedFormat(input, options)
     ELSE UNCHANGED <<output, error, cached>>
  /\ lastEvent' = "handleFormat"
  /\ UNCHANGED <<input, options, copied, copyPending, copiedTimers, pc, parsed>>

\* Fault: the clear puts the options back to their defaults.
handleClearAll ==
  /\ input' = <<>>
  /\ output' = <<>>
  /\ error' = NoError
  /\ options' = DefaultOptions
  /\ cachedBlank
  /\ lastEvent' = "handleClear"
  /\ UNCHANGED <<copied, copyPending, copiedTimers, pc, parsed>>

\* Lines 135-139.
handleClear ==
  /\ input' = <<>>
  /\ output' = <<>>
  /\ error' = NoError
  /\ cachedBlank
  /\ lastEvent' = "handleClear"
  /\ UNCHANGED <<options, copied, copyPending, copiedTimers, pc, parsed>>

\* Lines 141-144: the click starts the clipboard write and returns at the
\* await; the promise settles in a later task.
handleCopy ==
  /\ copyPending + copiedTimers < MaxPendingCopies
  /\ IF output # <<>>
     THEN copyPending' = copyPending + 1
     ELSE UNCHANGED copyPending
  /\ lastEvent' = "handleCopy"
  /\ UNCHANGED <<input, output, error, options, copied, copiedTimers, pc, parsed>>
  /\ UNCHANGED cached

\* Lines 145-149: the write succeeded; the reset is scheduled.
copyResolved ==
  /\ copyPending > 0
  /\ copyPending' = copyPending - 1
  /\ copied' = TRUE
  /\ copiedTimers' = copiedTimers + 1
  /\ lastEvent' = "copyResolved"
  /\ UNCHANGED <<input, output, error, options, pc, parsed>>
  /\ UNCHANGED cached

\* Lines 150-152: the write failed.
copyRejected ==
  /\ copyPending > 0
  /\ copyPending' = copyPending - 1
  /\ error' = CopyFailed
  /\ cachedError' = CopyFailed
  /\ lastEvent' = "copyRejected"
  /\ UNCHANGED <<input, output, options, copied, copiedTimers, pc, parsed>>
  /\ UNCHANGED <<cache, cachedOutput>>

\* Lines 147-149: the 2 s timer fires.
copiedReset ==
  /\ copiedTimers > 0
  /\ copiedTimers' = copiedTimers - 1
  /\ copied' = FALSE
  /\ lastEvent' = "copiedReset"
  /\ UNCHANGED <<input, output, error, options, copyPending, pc, parsed>>
  /\ UNCHANGED cached

\* Lines 156-168: the download reads output and changes no state.
handleDownload ==
  /\ output # <<>>
  /\ lastEvent' = "handleDownload"
  /\ UNCHANGED <<input, output, error, options, copied, copyPending,
                 copiedTimers, pc, parsed>>
  /\ UNCHANGED cached

\* Fault: the fields that are not given fall back to their defaults.
spreadOptionsDefaults(opts, newOptions) ==
  [indent |-> IF "indent" \in DOMAIN newOptions
              THEN newOptions.indent ELSE DefaultOptions.indent,
   minify |-> IF "minify" \in DOMAIN newOptions
              THEN newOptions.minify ELSE DefaultOptions.minify]

\* Line 171: { ...options, ...newOptions }, newOptions holding some of the
\* fields.
spreadOptions(opts, newOptions) ==
  [indent |-> IF "indent" \in DOMAIN newOptions
              THEN newOptions.indent ELSE opts.indent,
   minify |-> IF "minify" \in DOMAIN newOptions
              THEN newOptions.minify ELSE opts.minify]

\* Fault: formatJson is given the options of the last render, not the
\* updated ones.
handleOptionsChangeStale(updatedOptions) ==
  /\ options' = updatedOptions
  /\ IF Trim(input) # <<>>
     THEN /\ setResult(formatJsonMemo[input, options])
          /\ cachedFormat(input, updatedOptions)
     ELSE UNCHANGED <<output, error, cached>>
  /\ lastEvent' = "handleOptionsChange"
  /\ UNCHANGED <<input, copied, copyPending, copiedTimers, pc, parsed>>

\* Fault: the options are stored and nothing is formatted again.
handleOptionsChangeOnly(updatedOptions) ==
  /\ options' = updatedOptions
  /\ IF Trim(input) # <<>>
     THEN /\ UNCHANGED <<output, error>>
          /\ cachedFormat(input, updatedOptions)
     ELSE UNCHANGED <<output, error, cached>>
  /\ lastEvent' = "handleOptionsChange"
  /\ UNCHANGED <<input, copied, copyPending, copiedTimers, pc, parsed>>

\* Lines 172-176, updatedOptions being the options of line 171.
handleOptionsChange(updatedOptions) ==
  /\ options' = updatedOptions
  /\ IF Trim(input) # <<>>
     THEN /\ setResult(formatJsonMemo[input, updatedOptions])
          /\ cachedFormat(input, updatedOptions)
     ELSE UNCHANGED <<output, error, cached>>
  /\ lastEvent' = "handleOptionsChange"
  /\ UNCHANGED <<input, copied, copyPending, copiedTimers, pc, parsed>>

Next ==
  \/ \E newInput \in EditInputs : handleInputChange(newInput)
  \/ handleFormat
  \/ handleClear
  \/ handleCopy
  \/ copyResolved
  \/ copyRejected
  \/ copiedReset
  \/ handleDownload
  \/ \E n \in IndentChoices :                \* lines 194-198: the select
       handleOptionsChange(spreadOptions(options, [indent |-> n]))
  \/ \E b \in BOOLEAN :                      \* line 207: the checkbox
       handleOptionsChange(spreadOptions(options, [minify |-> b]))

Spec == Init /\ [][Next]_vars

(***************************************************************************)
(* One invocation of formatJson(input, options), followed step by step:    *)
(* Normalize is lines 100-102 (and the catch, lines 109-113, when          *)
(* parseJson throws), Format is lines 104-108.  The text and the options   *)
(* are any the caller may pass; the output and error on entry are those a  *)
(* fresh component shows, or those left by an earlier invocation and a     *)
(* failed copy.                                                            *)
(***************************************************************************)
StaleOutput == <<"[", "0", "]">>

PipelineInit ==
  /\ input \in RawInputs
  /\ options \in AllOptions
  /\ \/ output = <<>> /\ error = NoError
     \/ output = StaleOutput /\ error = CopyFailed
  /\ copied = FALSE
  /\ copyPending = 0
  /\ copiedTimers = 0
  /\ pc = "NotStarted"
  /\ parsed = JNull
  /\ lastEvent = "render"
  /\ cache = <<>>
  /\ cachedOutput = <<>>
  /\ cachedError = NoError

\* Fault: the catch sets the error and leaves the output.
normalizedStale(r) ==
  IF r.threw
  THEN /\ error' = r.message
       /\ pc' = "Failed"
       /\ UNCHANGED <<parsed, output>>
  ELSE /\ error' = NoError
       /\ parsed' = r.value
       /\ pc' = "Parsed"
       /\ UNCHANGED output

\* Fault: the catch reports the error and lets the invocation go on with
\* null as the value.
normalizedContinue(r) ==
  IF r.threw
  THEN /\ error' = r.message
       /\ output' = <<>>
       /\ parsed' = JNull
       /\ pc' = "Parsed"
  ELSE /\ error' = NoError
       /\ parsed' = r.value
       /\ pc' = "Parsed"
       /\ UNCHANGED output

\* Fault: setError(null) of line 100 is missing.
normalizedKeepError(r) ==
  IF r.threw
  THEN /\ error' = r.message
       /\ output' = <<>>
       /\ pc' = "Failed"
       /\ UNCHANGED parsed
  ELSE /\ parsed' = r.value
       /\ pc' = "Parsed"
       /\ UNCHANGED <<output, error>>

\* r is the outcome of parseJson(input).
normalized(r) ==
  IF r.threw
  THEN /\ error' = r.message
       /\ output' = <<>>
       /\ pc' = "Failed"
       /\ UNCHANGED parsed
  ELSE /\ error' = NoError
       /\ parsed' = r.value
       /\ pc' = "Parsed"
       /\ UNCHANGED output

Normalize ==
  /\ pc = "NotStarted"
  /\ normalized(parseJson(input))
  /\ UNCHANGED <<input, options, copied, copyPending, copiedTimers>>
  /\ UNCHANGED <<lastEvent, cache, cachedOutput, cachedError>>

\* Fault: the serializer refuses numbers that are not finite and throws.
RECURSIVE NonFinite(_)
NonFinite(v) ==
  \/ v.inf # 0
  \/ \E k \in 1..Len(v.kids) : NonFinite(v.kids[k])

FormatStrict ==
  /\ pc = "Parsed"
  /\ IF NonFinite(parsed)
     THEN /\ error' = Message("", "Unknown error occurred", 0)
          /\ output' = <<>>
          /\ pc' = "Failed"
     ELSE /\ output' = Serialize(parsed, options)
          /\ pc' = "Formatted"
          /\ UNCHANGED error
  /\ UNCHANGED <<input, options, parsed, copied, copyPending, copiedTimers>>
  /\ UNCHANGED <<lastEvent, cache, cachedOutput, cachedError>>

\* Fault: the serialization sits in a finally block and runs after the catch
\* too.
FormatAlways ==
  /\ pc \in {"Parsed", "Failed"}
  /\ output' = Serialize(parsed, options)
  /\ pc' = "Formatted"
  /\ UNCHANGED <<input, error, options, parsed, copied, copyPending, copiedTimers>>
  /\ UNCHANGED <<lastEvent, cache, cachedOutput, cachedError>>

\* Lines 104-108.
Format ==
  /\ pc = "Parsed"
  /\ output' = Serialize(parsed, options)
  /\ pc' = "Formatted"
  /\ UNCHANGED <<input, error, options, parsed, copied, copyPending, copiedTimers>>
  /\ UNCHANGED <<lastEvent, cache, cachedOutput, cachedError>>

PipelineNext == Normalize \/ Format

PipelineSpec == PipelineInit /\ [][PipelineNext]_vars

(***************************************************************************)
(* Properties.                                                             *)
(***************************************************************************)
PrettyTwo == [indent |-> 2, minify |-> FALSE]

Invoked == pc \in {"Parsed", "Formatted"}

\* C1: round trip.  For every text that standard JSON parsing accepts,
\* normalization succeeds, and normalizing the output printed with
\* {indent: 2, minify: false} gives back the value normalization gave.
C1_RoundTrip ==
  JSONparse(input).ok =>
    /\ pc # "Failed"
    /\ (pc = "Formatted" /\ options = PrettyTwo)
         => parseJson(output) = Return(parsed)

Blank(text) == Trim(text) = <<>>

\* The first JSON.parse of an invocation, and the second one the recovery
\* would make.
FirstParse == JSONparse(Trim(input))

SecondParse == JSONparse(Trim(FirstParse.val.s))

\* "{...}" or "[...]".
BracketDelimited(str) ==
  /\ Len(str) >= 1
  /\ \/ str[1] = "{" /\ str[Len(str)] = "}"
     \/ str[1] = "[" /\ str[Len(str)] = "]"

\* C2 as stated: every text that standard JSON parsing rejects makes
\* normalization fail as a syntax error, and the invocation leaves no output.
C2_EveryRejectedTextFails ==
  (~JSONparse(input).ok /\ pc # "NotStarted") =>
    /\ pc = "Failed"
    /\ error = Message(InvalidJsonPrefix, FirstParse.reason, FirstParse.pos)
    /\ output = <<>>

\* C2 (amended): every text whose trimmed form is not empty and is rejected
\* by standard JSON parsing makes normalization fail on the SyntaxError
\* branch (the message is "Invalid JSON: " and the parser's own), and the
\* invocation leaves the output empty.
C2_RejectedTextFails ==
  (~Blank(input) /\ ~FirstParse.ok /\ pc # "NotStarted") =>
    /\ pc = "Failed"
    /\ error = Message(InvalidJsonPrefix, FirstParse.reason, FirstParse.pos)
    /\ output = <<>>

C2_Witness ==
  /\ input = <<"{", "\"", "a", "\"", ":", "}">>
  /\ pc = "Failed"
  /\ error = Message(InvalidJsonPrefix, UnexpectedToken, 6)
  /\ output = <<>>

\* C3 as stated: blank input gives no error and no output text, from the
\* handlers as from normalize-then-format.
C3_BlankGivesNothing ==
  Blank(input) =>
    /\ output = <<>>
    /\ error.prefix # InvalidJsonPrefix
    /\ formatJson(input, options).output = <<>>
    /\ formatJson(input, options).error = NoError

\* C3 (amended): while the input is blank the handlers show an empty output
\* and never a syntax error (the only error then is that of a clipboard
\* write that failed late); formatJson itself, given a blank text, reports
\* no error and produces the text null.
C3_BlankInput ==
  Blank(input) =>
    /\ output = <<>>
    /\ error \in {NoError, CopyFailed}
    /\ formatJson(input, options) = [output |-> Chars("null"), error |-> NoError]

C3_Witness ==
  /\ input = <<" ", "\t", "\n", "\r">>
  /\ output = <<>>
  /\ error = NoError
  /\ options.minify

\* C4: when the first parse gives a string whose trimmed content is
\* bracket-delimited and parses as JSON, normalization returns the inner
\* value, an object or an array, not the string.
C4_InnerValueReplaces ==
  (Invoked /\ FirstParse.ok /\ FirstParse.val.t = "string"
     /\ BracketDelimited(Trim(FirstParse.val.s)) /\ SecondParse.ok) =>
    /\ parsed = SecondParse.val
    /\ parsed.t \in {"object", "array"}

C4_Witness ==
  /\ input = QuoteJSONString(<<"{">> \o Member(<<"a">>, <<"1">>) \o <<"}">>)
  /\ pc = "Parsed"
  /\ parsed = JObject(<<<<"a">>>>, <<JNumber(FALSE, 1, 0)>>)

\* C5: when the first parse gives a bracket-delimited string whose content
\* is not JSON, normalization succeeds with that string unchanged, the
\* error is null and the output is the string serialized.
C5_InnerFailureSwallowed ==
  (pc # "NotStarted" /\ FirstParse.ok /\ FirstParse.val.t = "string"
     /\ BracketDelimited(Trim(FirstParse.val.s)) /\ ~SecondParse.ok) =>
    /\ Invoked
    /\ parsed = FirstParse.val
    /\ error = NoError
    /\ pc = "Formatted" => output = QuoteJSONString(FirstParse.val.s)

C5_Witness ==
  /\ input = QuoteJSONString(<<" ", "[", "1", ",", "]", " ", "\n">>)
  /\ pc = "Formatted"
  /\ parsed = JString(<<" ", "[", "1", ",", "]", " ", "\n">>)
  /\ error = NoError
  /\ output = input

\* C6: normalization decodes at most one layer: its value is that of the
\* first parse, or that of the one second parse, with every string inside
\* still a string; a document encoded three times comes out still encoded.
C6_OneLayerOnly ==
  (Invoked /\ ~Blank(input)) =>
    \/ parsed = FirstParse.val
    \/ FirstParse.val.t = "string" /\ parsed = SecondParse.val

C6_Witness ==
  \/ /\ input = QuoteJSONString(<<"[">> \o QuoteJSONString(<<"[", "1", "]">>)
                                  \o <<"]">>)
     /\ pc = "Parsed"
     /\ parsed = JArray(<<JString(<<"[", "1", "]">>)>>)
     /\ options.indent = 4
  \/ /\ input = QuoteJSONString(QuoteJSONString(<<"[", "1", "]">>))
     /\ pc = "Parsed"
     /\ parsed = JString(QuoteJSONString(<<"[", "1", "]">>))
     /\ options.indent = 8

\* C7: when the first parse gives no string, or a string whose trimmed
\* content is not bracket-delimited, normalization returns the first
\* parse's value unchanged.
C7_OtherValuesUnchanged ==
  (Invoked /\ FirstParse.ok
     /\ (FirstParse.val.t # "string"
           \/ ~BracketDelimited(Trim(FirstParse.val.s)))) =>
    parsed = FirstParse.val

C7_Witness ==
  /\ input = QuoteJSONString(<<" ", "a", " ">>)
  /\ pc = "Parsed"
  /\ parsed = JString(<<" ", "a", " ">>)

(***************************************************************************)
(* Reading a JSON text without parsing it: which characters lie outside    *)
(* every string literal, the keys in the order they are written, and the   *)
(* nesting depth.                                                          *)
(***************************************************************************)
\* The position of the quote that closes the literal whose content starts
\* at position j.
RECURSIVE LiteralEnd(_, _)
LiteralEnd(text, j) ==
  IF j > Len(text) THEN j
  ELSE IF text[j] = "\\" THEN LiteralEnd(text, j + 2)
  ELSE IF text[j] = "\"" THEN j
  ELSE LiteralEnd(text, j + 1)

\* The positions from i on that lie outside every string literal.
RECURSIVE OutsideFrom(_, _)
OutsideFrom(text, i) ==
  IF i > Len(text) THEN {}
  ELSE IF text[i] = "\"" THEN OutsideFrom(text, LiteralEnd(text, i + 1) + 1)
  ELSE {i} \cup OutsideFrom(text, i + 1)

\* The keys written in text from position i on, in order.
RECURSIVE KeysFrom(_, _)
KeysFrom(text, i) ==
  IF i > Len(text) THEN <<>>
  ELSE IF text[i] = "\"" THEN
    LET e == LiteralEnd(text, i + 1)
        n == SkipWS(text, e + 1)
    IN  IF n <= Len(text) /\ text[n] = ":"
        THEN <<SubSeq(text, i + 1, e - 1)>> \o KeysFrom(text, n + 1)
        ELSE KeysFrom(text, e + 1)
  ELSE KeysFrom(text, i + 1)

NoRepeats(seq) ==
  \A h \in 1..Len(seq) : \A k \in 1..Len(seq) : seq[h] = seq[k] => h = k

\* The number of brackets open after the first i characters of text.
DepthAt(text, i) ==
  LET out == OutsideFrom(text, 1)
  IN  Cardinality({p \in out : p <= i /\ text[p] \in {"[", "{"}})
        - Cardinality({p \in out : p <= i /\ text[p] \in {"]", "}"}})

RECURSIVE SpacesFrom(_, _)
SpacesFrom(text, i) ==
  IF i <= Len(text) /\ text[i] = " " THEN 1 + SpacesFrom(text, i + 1) ELSE 0

\* Every line after the first starts with width spaces per level it is
\* nested at (a closing bracket stands one level out).
LinesIndented(text, width) ==
  \A i \in 1..Len(text) :
    text[i] = "\n" =>
      LET sp    == SpacesFrom(text, i + 1)
          first == text[i + 1 + sp]
          level == DepthAt(text, i) - (IF first \in {"]", "}"} THEN 1 ELSE 0)
      IN  sp = width * level

\* C8: in pretty mode the output lists the keys of every object in the
\* order the input text has them, integer-like keys included, each line
\* indented by options.indent spaces per nesting level.  (Stated for the
\* inputs whose first parse is an array or an object and that repeat no
\* key.)
C8_KeysInInputOrder ==
  (pc = "Formatted" /\ ~options.minify /\ FirstParse.ok
     /\ FirstParse.val.t \in {"array", "object"}
     /\ NoRepeats(KeysFrom(Trim(input), 1))) =>
    /\ KeysFrom(output, 1) = KeysFrom(Trim(input), 1)
    /\ LinesIndented(output, options.indent)

\* C9: for every parsed value the minified output has no white space
\* outside string literals and parses back to a value equal to it.
C9_MinifyRoundTrip ==
  (pc = "Formatted" /\ options.minify) =>
    /\ \A i \in OutsideFrom(output, 1) : output[i] \notin JSONWhiteSpace
    /\ JSONparse(output).ok
    /\ JSONparse(output).val = parsed

\* C10: for every parsed value that is a non-empty array or object, the
\* output at indent 4 is strictly longer than the output at indent 2, and
\* both parse back to a value equal to it.
C10_IndentGrows ==
  (Invoked /\ parsed.t \in {"array", "object"} /\ parsed.kids # <<>>) =>
    /\ Len(JSONstringify(parsed, 4)) > Len(JSONstringify(parsed, 2))
    /\ JSONparse(JSONstringify(parsed, 4)) = Ok(parsed, Len(JSONstringify(parsed, 4)) + 1)
    /\ JSONparse(JSONstringify(parsed, 2)) = Ok(parsed, Len(JSONstringify(parsed, 2)) + 1)

\* C11: in every state the component reaches, an error that is not null
\* comes with an empty output; no output is shown next to an error.
C11_OutputErrorExclusive ==
  ~error.isNull => output = <<>>

\* C12: within one invocation the serialization (the step that ends in
\* Formatted) is taken only from Parsed, that is after parseJson returned,
\* and on the value it returned; once normalization has failed no later
\* step of the invocation serializes anything: the output stays empty.
C12_FormatterAfterNormalize ==
  [][/\ (pc' = "Formatted" /\ pc # "Formatted") =>
          /\ pc = "Parsed"
          /\ parseJson(input) = Return(parsed)
          /\ error = NoError
     /\ pc = "Failed" => (pc' = "Failed" /\ output' = <<>>)]_vars

C12_Witness ==
  /\ input = <<"[", "1", ",">>
  /\ pc = "Failed"
  /\ output = <<>>
  /\ error = Message(InvalidJsonPrefix, UnexpectedEnd, 4)

C14_FormattingNeverFails ==
  /\ (~parseJson(input).threw /\ pc # "NotStarted") => Invoked
  /\ Invoked =>
       /\ error = NoError
       /\ \A o \in AllOptions :
            /\ Serialize(parsed, o) # <<>>
            /\ JSONparse(Serialize(parsed, o)).ok
  /\ pc = "Formatted" =>
       /\ output = Serialize(parsed, options)
       /\ output # <<>>

C14_Witness ==
  /\ pc = "Formatted"
  /\ parsed = JArray(<<JInfinity(FALSE)>>)
  /\ options = [indent |-> 8, minify |-> TRUE]
  /\ output = <<"[">> \o Chars("null") \o <<"]">>
  /\ error = NoError

\* C15: the output and error an invocation ends with are a function of its
\* arguments alone, the raw text and the options: whatever output and error
\* the component held before, the invocation ends with the same pair, the
\* one formatJson computes from the two arguments.
C15_ResultDependsOnArguments ==
  pc \in {"Formatted", "Failed"} =>
    [output |-> output, error |-> error] = formatJson(input, options)

C15_Witness ==
  /\ pc = "Formatted"
  /\ input = <<"[", "1", ",", " ", "2", "]">>
  /\ options = [indent |-> 4, minify |-> FALSE]
  /\ output = <<"[", "\n">> \o Repeat(" ", 4) \o <<"1", ",", "\n">>
                \o Repeat(" ", 4) \o <<"2", "\n", "]">>
  /\ error = NoError

\* C16: after any sequence of edits, format requests and option changes
\* (and clears, copies and downloads) the output shown is the one of the
\* current input under the current options: formatJson's output for them
\* when the input is not blank and parses, and empty otherwise.
C16_OutputMatchesLatestInput ==
  output = IF ~Blank(input) /\ ~parseJson(input).threw
           THEN formatJson(input, options).output
           ELSE <<>>

C16_Witness ==
  /\ input = <<"[", "1", ",", "[", "2", "]", "]">>
  /\ options = [indent |-> 8, minify |-> FALSE]
  /\ output = formatJson(input, options).output
  /\ output # formatJson(input, DefaultOptions).output
  /\ output # formatJson(<<"[", "]">>, options).output

\* C17: on every sequence of edits, format requests, option changes,
\* clears and copies, the component, which runs parseJson on the raw text
\* each time, and the caching variant, which re-invokes only the formatter
\* on its cached value, show the same output and the same error; the cache
\* never holds a value for a text other than the current input.
C17_CachingEquivalent ==
  /\ cachedOutput = output
  /\ cachedError = error
  /\ cache # <<>> =>
       /\ cache[1].key = input
       /\ cache[1].value = parseJson(input)

\* The options changed after the value was cached, and the cached value was
\* formatted again.
C17_Witness ==
  /\ lastEvent = "handleOptionsChange"
  /\ options = [indent |-> 4, minify |-> TRUE]
  /\ cache = <<[key |-> input, value |-> Return(JArray(<<>>))]>>
  /\ cachedOutput = <<"[", "]">>
  /\ output = <<"[", "]">>
  /\ input = <<"[", "]">>

\* C18: an invocation goes NotStarted -> Parsed -> Formatted or
\* NotStarted -> Failed.  Formatted is entered from Parsed only, Failed from
\* NotStarted only; neither is ever left, and nothing changes once there;
\* and the invocation ends as one of the two, never both: Formatted has an
\* output and no error, Failed an error and no output.
C18_StateMachine ==
  [][/\ pc = "NotStarted" => pc' \in {"NotStarted", "Parsed", "Failed"}
     /\ pc = "Parsed" => pc' \in {"Parsed", "Formatted"}
     /\ pc \in {"Formatted", "Failed"} =>
          (pc' = pc /\ output' = output /\ error' = error)
     /\ pc' = "Formatted" => (error' = NoError /\ output' # <<>>)
     /\ pc' = "Failed" => (~error'.isNull /\ output' = <<>>)]_vars

C18_Witness ==
  /\ pc = "Formatted"
  /\ input = <<"{">> \o Member(<<"a">>, <<"1">>) \o <<"}">>
  /\ parsed = JObject(<<(<<"a">>)>>, <<JNumber(FALSE, 1, 0)>>)
  /\ options.minify
  /\ output = input
  /\ error = NoError

\* C19: formatting the output of a successful invocation again, under any
\* options o2, gives what formatting the original text under o2 gives; so
\* the output fed back under the same options comes out unchanged, and
\* feeding it back never decodes a further layer.
C19_ReformatStable ==
  pc = "Formatted" =>
    /\ \A o2 \in AllOptions : formatJson(output, o2) = formatJson(input, o2)
    /\ formatJson(output, options) = [output |-> output, error |-> NoError]

\* A document quoted twice: one layer is decoded, the output is a string
\* literal, and it is fed back.
C19_Witness ==
  /\ pc = "Formatted"
  /\ input = QuoteJSONString(QuoteJSONString(<<"[", "1", "]">>))
  /\ parsed = JString(QuoteJSONString(<<"[", "1", "]">>))
  /\ output = input
  /\ formatJson(output, options).output = output

\* C20: from any reachable state, handleClear leaves the input empty, the
\* output empty and the error null, and leaves the options, indent and
\* minify, as they were.
C20_ClearResets ==
  [][lastEvent' = "handleClear" =>
       /\ input' = <<>>
       /\ output' = <<>>
       /\ error' = NoError
       /\ options' = options]_vars

\* Cleared with an output shown, options that are not the defaults and a
\* clipboard write still pending.
C20_Witness ==
  /\ lastEvent = "handleClear"
  /\ input = <<>>
  /\ output = <<>>
  /\ error = NoError
  /\ options = [indent |-> 8, minify |-> TRUE]
  /\ copyPending > 0

\* C21: handleOptionsChange changes only the option it is given: a step
\* that changes minify leaves indent as it was and a step that changes
\* indent leaves minify as it was; it never modifies the input; when the
\* input is blank it leaves the output and the error as they were; and
\* indent is one of 2, 4 and 8 in every reachable state.
C21_OptionsChangeFrame ==
  /\ [](options.indent \in {2, 4, 8} /\ options.minify \in BOOLEAN)
  /\ [][lastEvent' = "handleOptionsChange" =>
         /\ options'.minify # options.minify => options'.indent = options.indent
         /\ options'.indent # options.indent => options'.minify = options.minify
         /\ input' = input
         /\ Blank(input) => (output' = output /\ error' = error)]_vars

\* The options were changed twice over a blank input that shows the error
\* of a failed copy.
C21_Witness ==
  /\ lastEvent = "handleOptionsChange"
  /\ input = <<" ">>
  /\ options = [indent |-> 8, minify |-> TRUE]
  /\ output = <<>>
  /\ error = CopyFailed

====
